---- MODULE Spec2Model ----
(***************************************************************************)
(* A model of the Zed Terraform extension (src/terraform.rs).              *)
(*                                                                         *)
(* The extension keeps two cached binary paths and, through the host API,  *)
(* reads and writes its working directory.  Every handler of the Extension *)
(* trait is one action.  What the host and the file system answer during a *)
(* call (PATH lookup, release lookup, download, chmod, directory listing,  *)
(* removals) is not decided by the extension: every handler is therefore   *)
(* modelled as the SET of outcomes it can have, one per combination of     *)
(* host answers, and the action picks one of them.                         *)
(*                                                                         *)
(* Host contract assumed (the host is outside this repository):            *)
(*   - download_file, when it succeeds, has unpacked the archive served at *)
(*     the URL into the named directory; when it fails it has written      *)
(*     nothing;                                                            *)
(*   - make_file_executable succeeds only on an existing regular file;     *)
(*   - fs::remove_dir_all either removes the entry or fails and leaves it. *)
(***************************************************************************)
EXTENDS Integers, Sequences, FiniteSets, TLC

VARIABLES
    cached_mcp_binary_path,  \* Option<String>: <<>> is None, <<p>> is Some(p)
    cached_ls_binary_path,   \* Option<String>
    workdir,                 \* the extension's working directory: name -> entry
    host,                    \* the host: its platform, its release index, its faults
    last                     \* history: the last call, its result and host calls

vars == <<cached_mcp_binary_path, cached_ls_binary_path, workdir, host, last>>

(***************************************************************************)
(* Bounds and input domains.                                               *)
(***************************************************************************)

\* How many unrelated plain files the environment may put in the directory.
MaxOther == 1

OtherNames == <<"other-file", "notes.txt", "tmp.log">>

OtherFiles == {OtherNames[i] : i \in 1..MaxOther}

\* Release tags the release index may answer in the installation model.
Tags == {"v1.1.0", "1.1.0"}

\* Release tags of the URL model: with, without, and with a doubled prefix.
UrlTags == {"v1.2.3", "1.2.3", "vv1.2.3", "v", "1.v2", "V1.2.3"}

OsSet == {"Mac", "Linux", "Windows"}

ArchSet == {"Aarch64", "X86", "X8664"}

Platforms == OsSet \X ArchSet

\* The path the worktree's PATH lookup answers when it finds terraform-ls.
WhichPath == "/usr/local/bin/terraform-ls"

\* The error text of a failing host call.
HostError == "host error"

(***************************************************************************)
(* Option and Result.                                                      *)
(***************************************************************************)

None == <<>>

Some(x) == <<x>>

Ok(v) == [ok |-> TRUE, val |-> v]

Err(e) == [ok |-> FALSE, val |-> e]

(***************************************************************************)
(* Strings and paths.                                                      *)
(***************************************************************************)

RECURSIVE strip_prefix_v_all(_)
\* Mutant: every leading "v" is removed (str::trim_start_matches).
strip_prefix_v_all(s) ==
    IF Len(s) > 0 /\ SubSeq(s, 1, 1) = "v"
    THEN strip_prefix_v_all(SubSeq(s, 2, Len(s)))
    ELSE s

\* str::strip_prefix('v').unwrap_or(s): one leading "v" removed, if any.
strip_prefix_v(s) ==
    IF Len(s) > 0 /\ SubSeq(s, 1, 1) = "v"
    THEN SubSeq(s, 2, Len(s))
    ELSE s

RECURSIVE SlashFrom(_, _)
\* The index of the first "/" of s at or after i, 0 when there is none.
SlashFrom(s, i) ==
    IF i > Len(s) THEN 0
    ELSE IF SubSeq(s, i, i) = "/" THEN i
    ELSE SlashFrom(s, i + 1)

\* A directory entry holding the regular files `files`.
Dir(files) == [kind |-> "dir", files |-> files]

\* A plain file at the top level of the working directory.
PlainFile == [kind |-> "file", files |-> {}]

\* fs::metadata(path).map_or(false, |stat| stat.is_file()) in directory wd:
\* path names a plain file of wd, or a file "<dir>/<file>" of a directory of wd.
is_file(wd, path) ==
    \/ path \in DOMAIN wd /\ wd[path].kind = "file"
    \/ \E d \in DOMAIN wd :
          /\ wd[d].kind = "dir"
          /\ \E f \in wd[d].files : path = d \o "/" \o f

\* wd without the entries named in `names`.
Without(wd, names) == [n \in (DOMAIN wd) \ names |-> wd[n]]

\* wd with entry `name` set to `entry`.
With(wd, name, entry) ==
    [n \in (DOMAIN wd) \cup {name} |-> IF n = name THEN entry ELSE wd[n]]

(***************************************************************************)
(* The host API and the file system, as the sets of answers they can give. *)
(* h is the host: h.platform is what current_platform() answers, h.tags    *)
(* the tags the release index can answer, h.reliable says that no host or  *)
(* file-system call fails and that archives hold the expected binary.      *)
(***************************************************************************)

\* worktree.which("terraform-ls"): found on the PATH or not.
worktree_which(h) == {None, Some(WhichPath)}

\* zed::latest_github_release(repo, ..): a release's version tag, or an error.
latest_github_release(h, repo) ==
    {Ok(t) : t \in h.tags} \cup (IF h.reliable THEN {} ELSE {Err(HostError)})

\* The name of the binary inside the archive served at url: the path segment
\* after the host name, "https://releases.hashicorp.com/<tool>/...".
ArchiveBinary(url) ==
    LET a == SlashFrom(url, 9)
        b == SlashFrom(url, a + 1)
    IN  SubSeq(url, a + 1, b - 1)

\* zed::download_file(url, dir, Zip): unpacks the archive into dir. The archive
\* holds the tool's binary under its plain name, or (a differently laid out
\* archive) no file of that name.
download_file(h, wd, url, dir) ==
    LET old == IF dir \in DOMAIN wd /\ wd[dir].kind = "dir" THEN wd[dir].files ELSE {}
        archives == {{ArchiveBinary(url)}} \cup (IF h.reliable THEN {} ELSE {{}})
    IN  {[res |-> Ok(""), wd |-> With(wd, dir, Dir(old \cup a))] : a \in archives}
        \cup (IF h.reliable THEN {} ELSE {[res |-> Err(HostError), wd |-> wd]})

\* zed::make_file_executable(path).
make_file_executable(h, wd, path) ==
    (IF is_file(wd, path) THEN {Ok("")} ELSE {})
    \cup (IF h.reliable /\ is_file(wd, path) THEN {} ELSE {Err(HostError)})

\* fs::read_dir("."): the names of the top-level entries, or an error.
read_dir(h, wd) ==
    {[res |-> Ok(""), entries |-> DOMAIN wd]}
    \cup (IF h.reliable THEN {} ELSE {[res |-> Err(HostError), entries |-> {}]})

\* The outcome of a handler's locator: its result, the new value of its cache
\* field, the new working directory, the host calls made in order, how the
\* cleanup sweep ended ("none", "list_err", "entry_err", "done"), the entries
\* read_dir listed and, for a completed sweep, those whose removal failed.
Outcome(result, cache, wd, log, sweep, listed, kept) ==
    [result |-> result, cache |-> cache, wd |-> wd, log |-> log,
     sweep |-> sweep, listed |-> listed, kept |-> kept]

\* Mutant: the entry name is compared with the directory name and a slash.
is_stale_entry_slash(name, version_dir) == name # version_dir \o "/"

\* The sweep's test `entry.file_name().to_str() != Some(&version_dir)`.
is_stale_entry(name, version_dir) == name # version_dir

\* Mutant: a removal failure is passed on with `?`, ending the loop with the
\* host's error instead of being dropped.
sweep_entries_stops_at_failure(h, wd, entries, version_dir) ==
    LET stale == {n \in entries : is_stale_entry(n, version_dir)} IN
    {[res |-> Ok(""), wd |-> Without(wd, stale), kept |-> {}]}
    \cup (IF h.reliable THEN {}
          ELSE {[res |-> Err("failed to load directory entry " \o HostError),
                 wd |-> Without(wd, removed), kept |-> {}]
                   : removed \in SUBSET stale}
               \cup {[res |-> Err(HostError),
                      wd |-> Without(wd, removed), kept |-> {}]
                        : removed \in (SUBSET stale) \ {stale}})

\* The loop over the listed entries: every entry that is not version_dir is
\* handed to fs::remove_dir_all, whose failure is dropped by .ok(); an entry
\* that cannot be loaded ends the loop with an error. The entries come in no
\* fixed order, so an aborted loop has removed any subset of them.
sweep_entries(h, wd, entries, version_dir) ==
    LET stale == {n \in entries : is_stale_entry(n, version_dir)}
        removable == IF h.reliable THEN {stale} ELSE SUBSET stale
    IN  {[res |-> Ok(""), wd |-> Without(wd, removed), kept |-> stale \ removed]
            : removed \in removable}
        \cup (IF h.reliable THEN {}
              ELSE {[res |-> Err("failed to load directory entry " \o HostError),
                     wd |-> Without(wd, removed), kept |-> {}]
                       : removed \in SUBSET stale})

(***************************************************************************)
(* TerraformExtension::context_server_binary_path                          *)
(***************************************************************************)

\* The download URL of the context server's archive for a release version.
mcp_download_url(version, plat) ==
    LET v == strip_prefix_v(version)
        os == CASE plat[1] = "Mac" -> "darwin"
                [] plat[1] = "Linux" -> "linux"
                [] plat[1] = "Windows" -> "windows"
        arch == CASE plat[2] = "Aarch64" -> "arm64"
                  [] plat[2] = "X86" -> "386"
                  [] plat[2] = "X8664" -> "amd64"
    IN  "https://releases.hashicorp.com/terraform-mcp-server/" \o v
        \o "/terraform-mcp-server_" \o v \o "_" \o os \o "_" \o arch \o ".zip"

\* Mutant: the cache field is written before the cleanup, so a failing
\* directory listing leaves it set.
mcp_cleanup_caches_first(h, cache, wd, version_dir, binary_path, log) ==
    LET log1 == Append(log, <<"read_dir", ".">>) IN
    UNION {
        IF ~l.res.ok
        THEN {Outcome(Err("failed to list working directory " \o l.res.val),
                      Some(binary_path), wd, log1, "list_err", {}, {})}
        ELSE {IF ~s.res.ok
              THEN Outcome(Err(s.res.val), Some(binary_path), s.wd, log1,
                           "entry_err", l.entries, {})
              ELSE Outcome(Ok(binary_path), Some(binary_path), s.wd, log1,
                           "done", l.entries, s.kept)
                : s \in sweep_entries(h, wd, l.entries, version_dir)}
        : l \in read_dir(h, wd)}

\* The cleanup after download and chmod, then the cache update and the return.
mcp_cleanup(h, cache, wd, version_dir, binary_path, log) ==
    LET log1 == Append(log, <<"read_dir", ".">>) IN
    UNION {
        IF ~l.res.ok
        THEN {Outcome(Err("failed to list working directory " \o l.res.val),
                      cache, wd, log1, "list_err", {}, {})}
        ELSE {IF ~s.res.ok
              THEN Outcome(Err(s.res.val), cache, s.wd, log1, "entry_err", l.entries, {})
              ELSE Outcome(Ok(binary_path), Some(binary_path), s.wd, log1,
                           "done", l.entries, s.kept)
                : s \in sweep_entries(h, wd, l.entries, version_dir)}
        : l \in read_dir(h, wd)}

\* The branch taken when no regular file is at binary_path: download, chmod,
\* cleanup.
mcp_install(h, cache, wd, url, version_dir, binary_path, log) ==
    LET log1 == Append(log, <<"download_file", url, version_dir>>)
        log2 == Append(log1, <<"make_file_executable", binary_path>>)
    IN
    UNION {
        IF ~d.res.ok
        THEN {Outcome(Err("failed to download file: " \o d.res.val),
                      cache, d.wd, log1, "none", {}, {})}
        ELSE UNION {
            IF ~x.ok
            THEN {Outcome(Err(x.val), cache, d.wd, log2, "none", {}, {})}
            ELSE mcp_cleanup(h, cache, d.wd, version_dir, binary_path, log2)
            : x \in make_file_executable(h, d.wd, binary_path)}
        : d \in download_file(h, wd, url, version_dir)}

\* Mutant: the cache test asks for a directory, which a binary path never is.
mcp_cache_hit_is_dir(cache, wd) ==
    cache # None /\ cache[1] \in DOMAIN wd /\ wd[cache[1]].kind = "dir"

\* The cache test: a cached path that still names a regular file.
mcp_cache_hit(cache, wd) == cache # None /\ is_file(wd, cache[1])

\* Mutant: the cleanup is done after the `if`, whether or not the binary was
\* already at binary_path.
context_server_binary_path_always_sweeps(h, cache, wd) ==
    LET log0 == IF cache = None THEN <<>> ELSE <<<<"metadata", cache[1]>>>>
        log1 == Append(log0, <<"latest_github_release",
                               "hashicorp/terraform-mcp-server">>)
    IN
    IF mcp_cache_hit(cache, wd)
    THEN {Outcome(Ok(cache[1]), cache, wd, log0, "none", {}, {})}
    ELSE UNION {
        IF ~release.ok
        THEN {Outcome(Err(release.val), cache, wd, log1, "none", {}, {})}
        ELSE
            LET url == mcp_download_url(release.val, h.platform)
                version_dir == "terraform-mcp-server-" \o release.val
                binary_path == version_dir \o "/terraform-mcp-server"
                log2 == log1 \o <<<<"current_platform">>, <<"metadata", binary_path>>>>
            IN  IF ~is_file(wd, binary_path)
                THEN mcp_install(h, cache, wd, url, version_dir, binary_path, log2)
                ELSE mcp_cleanup(h, cache, wd, version_dir, binary_path, log2)
        : release \in latest_github_release(h, "hashicorp/terraform-mcp-server")}

\* The whole locator: cache check, release lookup, URL, install when absent.
context_server_binary_path(h, cache, wd) ==
    LET log0 == IF cache = None THEN <<>> ELSE <<<<"metadata", cache[1]>>>>
        log1 == Append(log0, <<"latest_github_release",
                               "hashicorp/terraform-mcp-server">>)
    IN
    IF mcp_cache_hit(cache, wd)
    THEN {Outcome(Ok(cache[1]), cache, wd, log0, "none", {}, {})}
    ELSE UNION {
        IF ~release.ok
        THEN {Outcome(Err(release.val), cache, wd, log1, "none", {}, {})}
        ELSE
            LET url == mcp_download_url(release.val, h.platform)
                version_dir == "terraform-mcp-server-" \o release.val
                binary_path == version_dir \o "/terraform-mcp-server"
                log2 == log1 \o <<<<"current_platform">>, <<"metadata", binary_path>>>>
            IN  IF ~is_file(wd, binary_path)
                THEN mcp_install(h, cache, wd, url, version_dir, binary_path, log2)
                ELSE {Outcome(Ok(binary_path), Some(binary_path), wd, log2,
                              "none", {}, {})}
        : release \in latest_github_release(h, "hashicorp/terraform-mcp-server")}

(***************************************************************************)
(* TerraformExtension::language_server_binary_path                         *)
(***************************************************************************)

\* Mutant: the tokens of the two 64-bit architectures are exchanged.
ls_download_url_arch_swapped(version, plat) ==
    LET v == strip_prefix_v(version)
        os == CASE plat[1] = "Mac" -> "darwin"
                [] plat[1] = "Linux" -> "linux"
                [] plat[1] = "Windows" -> "windows"
        arch == CASE plat[2] = "Aarch64" -> "amd64"
                  [] plat[2] = "X86" -> "386"
                  [] plat[2] = "X8664" -> "arm64"
    IN  "https://releases.hashicorp.com/terraform-ls/" \o v
        \o "/terraform-ls_" \o v \o "_" \o os \o "_" \o arch \o ".zip"

\* The download URL of the language server's archive for a release version.
ls_download_url(version, plat) ==
    LET v == strip_prefix_v(version)
        os == CASE plat[1] = "Mac" -> "darwin"
                [] plat[1] = "Linux" -> "linux"
                [] plat[1] = "Windows" -> "windows"
        arch == CASE plat[2] = "Aarch64" -> "arm64"
                  [] plat[2] = "X86" -> "386"
                  [] plat[2] = "X8664" -> "amd64"
    IN  "https://releases.hashicorp.com/terraform-ls/" \o v
        \o "/terraform-ls_" \o v \o "_" \o os \o "_" \o arch \o ".zip"

\* The cleanup after download and chmod, then the cache update and the return.
ls_cleanup(h, cache, wd, version_dir, binary_path, log) ==
    LET log1 == Append(log, <<"read_dir", ".">>) IN
    UNION {
        IF ~l.res.ok
        THEN {Outcome(Err("failed to list working directory " \o l.res.val),
                      cache, wd, log1, "list_err", {}, {})}
        ELSE {IF ~s.res.ok
              THEN Outcome(Err(s.res.val), cache, s.wd, log1, "entry_err", l.entries, {})
              ELSE Outcome(Ok(binary_path), Some(binary_path), s.wd, log1,
                           "done", l.entries, s.kept)
                : s \in sweep_entries(h, wd, l.entries, version_dir)}
        : l \in read_dir(h, wd)}

\* Mutant: the result of make_file_executable is dropped instead of passed on.
ls_install_ignores_chmod(h, cache, wd, url, version_dir, binary_path, log) ==
    LET log0 == Append(log, <<"set_language_server_installation_status",
                              "Downloading">>)
        log1 == Append(log0, <<"download_file", url, version_dir>>)
        log2 == Append(log1, <<"make_file_executable", binary_path>>)
    IN
    UNION {
        IF ~d.res.ok
        THEN {Outcome(Err("failed to download file: " \o d.res.val),
                      cache, d.wd, log1, "none", {}, {})}
        ELSE ls_cleanup(h, cache, d.wd, version_dir, binary_path, log2)
        : d \in download_file(h, wd, url, version_dir)}

\* Mutant: the Downloading status is reported once the download has returned.
ls_install_status_after_download(h, cache, wd, url, version_dir, binary_path, log) ==
    LET log0 == Append(log, <<"download_file", url, version_dir>>)
        log1 == Append(log0, <<"set_language_server_installation_status",
                               "Downloading">>)
        log2 == Append(log1, <<"make_file_executable", binary_path>>)
    IN
    UNION {
        IF ~d.res.ok
        THEN {Outcome(Err("failed to download file: " \o d.res.val),
                      cache, d.wd, log0, "none", {}, {})}
        ELSE UNION {
            IF ~x.ok
            THEN {Outcome(Err(x.val), cache, d.wd, log2, "none", {}, {})}
            ELSE ls_cleanup(h, cache, d.wd, version_dir, binary_path, log2)
            : x \in make_file_executable(h, d.wd, binary_path)}
        : d \in download_file(h, wd, url, version_dir)}

\* The branch taken when no regular file is at binary_path: the Downloading
\* status, download, chmod, cleanup.
ls_install(h, cache, wd, url, version_dir, binary_path, log) ==
    LET log0 == Append(log, <<"set_language_server_installation_status",
                              "Downloading">>)
        log1 == Append(log0, <<"download_file", url, version_dir>>)
        log2 == Append(log1, <<"make_file_executable", binary_path>>)
    IN
    UNION {
        IF ~d.res.ok
        THEN {Outcome(Err("failed to download file: " \o d.res.val),
                      cache, d.wd, log1, "none", {}, {})}
        ELSE UNION {
            IF ~x.ok
            THEN {Outcome(Err(x.val), cache, d.wd, log2, "none", {}, {})}
            ELSE ls_cleanup(h, cache, d.wd, version_dir, binary_path, log2)
            : x \in make_file_executable(h, d.wd, binary_path)}
        : d \in download_file(h, wd, url, version_dir)}

\* Mutant: the cache test looks at top-level entries only, so a binary inside
\* its version directory is never found.
ls_cache_hit_top_level_only(cache, wd) ==
    cache # None /\ cache[1] \in DOMAIN wd /\ wd[cache[1]].kind = "file"

\* Mutant: the cached path is trusted without looking at the file system.
ls_cache_hit_unchecked(cache, wd) == cache # None

\* The cache test: a cached path that still names a regular file.
ls_cache_hit(cache, wd) == cache # None /\ is_file(wd, cache[1])

\* What follows the PATH lookup when it found nothing: cache check, release
\* lookup, URL, install when absent.
ls_cached_or_installed(h, cache, wd, logw) ==
    LET log0 == IF cache = None THEN logw
                ELSE Append(logw, <<"metadata", cache[1]>>)
        log1 == log0 \o <<<<"set_language_server_installation_status",
                            "CheckingForUpdate">>,
                          <<"latest_github_release", "hashicorp/terraform-ls">>>>
    IN
    IF ls_cache_hit(cache, wd)
    THEN {Outcome(Ok(cache[1]), cache, wd, log0, "none", {}, {})}
    ELSE UNION {
        IF ~release.ok
        THEN {Outcome(Err(release.val), cache, wd, log1, "none", {}, {})}
        ELSE
            LET url == ls_download_url(release.val, h.platform)
                version_dir == "terraform-ls-" \o release.val
                binary_path == version_dir \o "/terraform-ls"
                log2 == log1 \o <<<<"current_platform">>, <<"metadata", binary_path>>>>
            IN  IF ~is_file(wd, binary_path)
                THEN ls_install(h, cache, wd, url, version_dir, binary_path, log2)
                ELSE {Outcome(Ok(binary_path), Some(binary_path), wd, log2,
                              "none", {}, {})}
        : release \in latest_github_release(h, "hashicorp/terraform-ls")}

\* Mutant: the cache is consulted before the PATH lookup.
language_server_binary_path_cache_first(h, cache, wd, which) ==
    LET logw == <<<<"which", "terraform-ls">>>> IN
    IF ls_cache_hit(cache, wd) \/ which = None
    THEN ls_cached_or_installed(h, cache, wd, logw)
    ELSE {Outcome(Ok(which[1]), cache, wd, logw, "none", {}, {})}

\* The whole locator: the PATH lookup first. which is the answer of
\* worktree.which("terraform-ls").
language_server_binary_path(h, cache, wd, which) ==
    LET logw == <<<<"which", "terraform-ls">>>> IN
    IF which # None
    THEN {Outcome(Ok(which[1]), cache, wd, logw, "none", {}, {})}
    ELSE ls_cached_or_installed(h, cache, wd, logw)

(***************************************************************************)
(* impl zed::Extension for TerraformExtension                              *)
(***************************************************************************)

\* zed::Command { command, args, env: Default::default() }.
Command(command, args) == [command |-> command, args |-> args, env |-> <<>>]

\* Ok(zed::Command { command: <locator>?, args, env }): the locator's error is
\* passed on by `?`. located keeps the locator's own result.
command_of(o, args) ==
    [located |-> o.result,
     result |-> IF o.result.ok THEN Ok(Command(o.result.val, args))
                ELSE Err(o.result.val),
     cache |-> o.cache, wd |-> o.wd, log |-> o.log,
     sweep |-> o.sweep, listed |-> o.listed, kept |-> o.kept]

\* Mutant: the context server is started with the language server's argument.
context_server_command_serve(h, cache, wd) ==
    {command_of(o, <<"serve">>) : o \in context_server_binary_path(h, cache, wd)}

context_server_command(h, cache, wd) ==
    {command_of(o, <<"stdio">>) : o \in context_server_binary_path(h, cache, wd)}

language_server_command(h, cache, wd, which) ==
    {command_of(o, <<"serve">>) : o \in language_server_binary_path(h, cache, wd, which)}

\* The bundled texts and the rendered schema of the (empty) settings struct.
installation_instructions == "include_str!(configuration/installation_instructions.md)"

default_settings == "include_str!(configuration/default_settings.jsonc)"

settings_schema == "schema_for!(TerraformContextServerSettings)"

\* Mutant: the configuration query forgets the context server's cached path.
context_server_configuration_resets(h, mcp, ls, wd) ==
    [result |-> Ok(Some([installation_instructions |-> installation_instructions,
                         default_settings |-> default_settings,
                         settings_schema |-> settings_schema])),
     mcp |-> None, ls |-> ls, wd |-> wd, log |-> <<>>]

\* Ok(Some(ContextServerConfiguration { .. })): reads nothing but constants.
context_server_configuration(h, mcp, ls, wd) ==
    [result |-> Ok(Some([installation_instructions |-> installation_instructions,
                         default_settings |-> default_settings,
                         settings_schema |-> settings_schema])),
     mcp |-> mcp, ls |-> ls, wd |-> wd, log |-> <<>>]

\* A record of a call that installed: it downloaded, swept and returned Ok.
FreshInstall(l) == l.result.ok /\ l.sweep = "done"

\* The record kept of a call. prev is the record of the step before it:
\* after_install names the handler when that step was an install by it.
Call(op, which, c, prev) ==
    [op |-> op, which |-> which, located |-> c.located, result |-> c.result,
     log |-> c.log, sweep |-> c.sweep, listed |-> c.listed, kept |-> c.kept,
     after_install |-> IF FreshInstall(prev) THEN prev.op ELSE ""]

\* The record kept when no call of a locator was the last step.
NoCall(op, result) ==
    [op |-> op, which |-> None, located |-> Err(""), result |-> result,
     log |-> <<>>, sweep |-> "none", listed |-> {}, kept |-> {},
     after_install |-> ""]

(***************************************************************************)
(* The state machine.                                                      *)
(***************************************************************************)

\* The hosts of the installation model: one platform (the URL model covers them
\* all), an index answering Tags, calls that may fail.
Hosts == [platform : {<<"Linux", "X8664">>}, tags : {Tags}, reliable : {FALSE}]

\* The hosts of the URL model: every platform, an index answering UrlTags,
\* calls that do not fail.
UrlHosts == [platform : Platforms, tags : {UrlTags}, reliable : {TRUE}]

\* TerraformExtension::new() in an empty working directory.
Init ==
    /\ cached_mcp_binary_path = None
    /\ cached_ls_binary_path = None
    /\ workdir = <<>>
    /\ host \in Hosts
    /\ last = NoCall("new", Err(""))

UrlInit ==
    /\ cached_mcp_binary_path = None
    /\ cached_ls_binary_path = None
    /\ workdir = <<>>
    /\ host \in UrlHosts
    /\ last = NoCall("new", Err(""))

\* The host loads the extension anew (an editor restart): the caches start
\* empty, the working directory is what the earlier instance left.
New ==
    /\ last.op # "new"
    /\ cached_mcp_binary_path' = None
    /\ cached_ls_binary_path' = None
    /\ last' = NoCall("new", Err(""))
    /\ UNCHANGED <<workdir, host>>

ContextServerCommand ==
    \E c \in context_server_command(host, cached_mcp_binary_path, workdir) :
        /\ cached_mcp_binary_path' = c.cache
        /\ workdir' = c.wd
        /\ last' = Call("context_server_command", None, c, last)
        /\ UNCHANGED <<cached_ls_binary_path, host>>

LanguageServerCommand ==
    \E which \in worktree_which(host) :
        \E c \in language_server_command(host, cached_ls_binary_path, workdir, which) :
            /\ cached_ls_binary_path' = c.cache
            /\ workdir' = c.wd
            /\ last' = Call("language_server_command", which, c, last)
            /\ UNCHANGED <<cached_mcp_binary_path, host>>

ContextServerConfiguration ==
    LET c == context_server_configuration(host, cached_mcp_binary_path,
                                          cached_ls_binary_path, workdir)
    IN  /\ cached_mcp_binary_path' = c.mcp
        /\ cached_ls_binary_path' = c.ls
        /\ workdir' = c.wd
        /\ last' = [NoCall("context_server_configuration", c.result)
                        EXCEPT !.log = c.log]
        /\ UNCHANGED host

\* Something other than the extension removes an entry of the working
\* directory.
ExternalRemove ==
    \E n \in DOMAIN workdir :
        /\ workdir' = Without(workdir, {n})
        /\ last' = NoCall("external", Err(""))
        /\ UNCHANGED <<cached_mcp_binary_path, cached_ls_binary_path, host>>

\* Something other than the extension leaves a plain file in the working
\* directory.
ExternalCreate ==
    \E n \in OtherFiles \ DOMAIN workdir :
        /\ workdir' = With(workdir, n, PlainFile)
        /\ last' = NoCall("external", Err(""))
        /\ UNCHANGED <<cached_mcp_binary_path, cached_ls_binary_path, host>>

Next ==
    \/ New
    \/ ContextServerCommand
    \/ LanguageServerCommand
    \/ ContextServerConfiguration
    \/ ExternalRemove
    \/ ExternalCreate

Spec == Init /\ [][Next]_vars

UrlSpec == UrlInit /\ [][Next]_vars

(***************************************************************************)
(* Properties.                                                             *)
(***************************************************************************)

CommandOps == {"context_server_command", "language_server_command"}

\* The number of calls of host operation op in a log.
CountOp(log, op) == Cardinality({i \in 1..Len(log) : log[i][1] = op})

HasOp(log, op) == CountOp(log, op) > 0

\* The cache field of a handler, in the current state.
CacheOf(op) ==
    IF op = "context_server_command" THEN cached_mcp_binary_path
    ELSE cached_ls_binary_path

\* C1: when a command runs directly after a successful run of the same
\* command, with no PATH hit in either, the second run downloads nothing and
\* returns the path the first returned, which names a regular file; the two
\* runs download at most once, and exactly once when the first run installed.
C1_SecondRunDownloadsNothing ==
    [][\A op \in CommandOps :
        (/\ last.op = op /\ last.result.ok /\ last.which = None
         /\ last'.op = op /\ last'.which = None)
        => /\ CountOp(last'.log, "download_file") = 0
           /\ CountOp(last.log, "download_file") <= 1
           /\ FreshInstall(last) => CountOp(last.log, "download_file") = 1
           /\ last'.located = last.located
           /\ is_file(workdir', last'.located.val)]_vars

\* A second run directly after an install by the same handler has returned.
C1_Witness ==
    /\ last.op \in CommandOps
    /\ last.after_install = last.op
    /\ last.which = None
    /\ last.result.ok
    /\ ~HasOp(last.log, "download_file")

\* C2: a language_server_command whose PATH lookup found terraform-ls returns
\* the found path with args ["serve"] and has made no host call but the
\* lookup: no cache check, no release lookup, no download.
C2_PathPrecedence ==
    (last.op = "language_server_command" /\ last.which # None)
    => /\ last.result.ok
       /\ last.result.val.command = last.which[1]
       /\ last.log = <<<<"which", "terraform-ls">>>>
       /\ ~HasOp(last.log, "latest_github_release")
       /\ ~HasOp(last.log, "download_file")

\* A PATH hit while the cache names a path that is no regular file (stale),
\* and one while it names a regular file (valid): both are reached, see
\* C2_WitnessValid.
C2_Witness ==
    /\ last.op = "language_server_command"
    /\ last.which # None
    /\ cached_ls_binary_path # None
    /\ ~is_file(workdir, cached_ls_binary_path[1])
    /\ DOMAIN workdir # {}

C2_WitnessValid ==
    /\ last.op = "language_server_command"
    /\ last.which # None
    /\ cached_ls_binary_path # None
    /\ is_file(workdir, cached_ls_binary_path[1])

\* The position of the cache check's metadata call in a handler's log.
CacheCheckAt(op) == IF op = "context_server_command" THEN 1 ELSE 2

\* The position of the release lookup in the log of a handler whose cache
\* field was set: after the cache check and, for the language server, the
\* CheckingForUpdate status.
LookupAt(op) == IF op = "context_server_command" THEN 2 ELSE 4

\* A record of a call that found its cache field set to a path that is no
\* regular file: the cache check is in the log and is not its last call.
StaleSeen(l) ==
    /\ l.op \in CommandOps
    /\ Len(l.log) > CacheCheckAt(l.op)
    /\ l.log[CacheCheckAt(l.op)][1] = "metadata"

\* C3: a call that finds its cache field set to a path that is no regular
\* file (and, for the language server, nothing on the PATH) goes on to the
\* release lookup. If it returns a path, that is the path it checked or
\* installed after the lookup, a regular file, and the cache field holds it;
\* if it returns an error, the error is that of the lookup or of an install
\* step, and the cache field is left as it was.
C3_StaleCacheIsNotInstalled ==
    [][\A op \in CommandOps :
        LET cache == CacheOf(op)
            cache2 == IF op = "context_server_command"
                      THEN cached_mcp_binary_path' ELSE cached_ls_binary_path'
            log == last'.log
        IN
        (/\ last'.op = op /\ last'.which = None
         /\ cache # None /\ ~is_file(workdir, cache[1]))
        => /\ StaleSeen(last')
           /\ log[CacheCheckAt(op)] = <<"metadata", cache[1]>>
           /\ Len(log) >= LookupAt(op)
           /\ log[LookupAt(op)][1] = "latest_github_release"
           /\ last'.located.ok =>
                /\ log[LookupAt(op) + 2] = <<"metadata", last'.located.val>>
                /\ is_file(workdir', last'.located.val)
                /\ cache2 = Some(last'.located.val)
           /\ ~last'.located.ok =>
                /\ log[Len(log)][1] \in
                     {"latest_github_release", "download_file",
                      "make_file_executable", "read_dir"}
                /\ cache2 = cache]_vars

\* A call that found a stale cache entry and returned the reinstalled path.
C3_Witness ==
    /\ StaleSeen(last)
    /\ last.which = None
    /\ last.result.ok
    /\ HasOp(last.log, "download_file")

\* The directory a call's download was unpacked into.
DownloadDir(log) ==
    LET i == CHOOSE j \in 1..Len(log) : log[j][1] = "download_file" IN log[i][3]

\* C4 as claimed: after an install, only version_dir is left in the working
\* directory.
C4_OnlyVersionDirRetained ==
    FreshInstall(last) => DOMAIN workdir = {DownloadDir(last.log)}

\* C4 as amended: after an install, version_dir is retained with its binary,
\* and of the other entries listed exactly those are left whose removal
\* failed; every other listed entry, a directory or a plain file, is removed.
C4_SweepRemovesWhatItCan ==
    FreshInstall(last) =>
        LET version_dir == DownloadDir(last.log) IN
        /\ version_dir \in DOMAIN workdir
        /\ is_file(workdir, last.located.val)
        /\ version_dir \notin last.kept
        /\ last.kept \subseteq last.listed
        /\ DOMAIN workdir = {version_dir} \cup last.kept

\* An install that removed a listed entry and failed to remove another, with
\* a plain file and another version's directory among those listed.
C4_Witness ==
    /\ FreshInstall(last)
    /\ last.kept # {}
    /\ last.listed \ DOMAIN workdir # {}
    /\ last.listed \cap OtherFiles # {}
    /\ Cardinality(last.listed) >= 3

\* C5: a command that returns Ok with a path not taken from the PATH returns a
\* path that names a regular file at that moment; a cache field changes to a
\* path only in a call of its handler that returns that path, a regular file;
\* a call that returns an error leaves its cache field as it was.
C5_NoPartialSuccess ==
    [][/\ \A op \in CommandOps :
            (last'.op = op /\ last'.which = None /\ last'.located.ok)
            => is_file(workdir', last'.located.val)
       /\ (cached_mcp_binary_path' # cached_mcp_binary_path
            /\ cached_mcp_binary_path' # None)
          => /\ last'.op = "context_server_command"
             /\ last'.located = Ok(cached_mcp_binary_path'[1])
             /\ is_file(workdir', cached_mcp_binary_path'[1])
       /\ (cached_ls_binary_path' # cached_ls_binary_path
            /\ cached_ls_binary_path' # None)
          => /\ last'.op = "language_server_command"
             /\ last'.located = Ok(cached_ls_binary_path'[1])
             /\ is_file(workdir', cached_ls_binary_path'[1])
       /\ (last'.op \in CommandOps /\ ~last'.located.ok)
          => /\ cached_mcp_binary_path' = cached_mcp_binary_path
             /\ cached_ls_binary_path' = cached_ls_binary_path]_vars

\* An install has returned Ok and set the cache field to the returned path.
C5_Witness ==
    /\ FreshInstall(last)
    /\ last.which = None
    /\ CacheOf(last.op) = Some(last.located.val)
    /\ is_file(workdir, last.located.val)

\* The host operations a call can fail in.
FallibleOps ==
    {"latest_github_release", "download_file", "make_file_executable", "read_dir"}

\* C6: a command that returns an error has made every host call at most once,
\* the failing one last, returns the locator's error, and leaves both cache
\* fields holding what they held before the call.
C6_ErrorsKeepTheCache ==
    [][(last'.op \in CommandOps /\ ~last'.result.ok)
        => /\ cached_mcp_binary_path' = cached_mcp_binary_path
           /\ cached_ls_binary_path' = cached_ls_binary_path
           /\ \A f \in FallibleOps : CountOp(last'.log, f) <= 1
           /\ last'.log[Len(last'.log)][1] \in FallibleOps
           /\ last'.result = Err(last'.located.val)]_vars

\* A call has failed in its directory listing while its cache field was set.
C6_Witness ==
    /\ last.op \in CommandOps
    /\ ~last.result.ok
    /\ last.sweep = "list_err"
    /\ CacheOf(last.op) # None

(***************************************************************************)
(* The download URL, read back from the download_file call of a log.       *)
(***************************************************************************)

\* The tool of a handler.
ToolOf(op) ==
    IF op = "context_server_command" THEN "terraform-mcp-server"
    ELSE "terraform-ls"

\* The URL a call's download was made from.
DownloadUrl(log) ==
    LET i == CHOOSE j \in 1..Len(log) : log[j][1] = "download_file" IN log[i][2]

\* The release tag of a call that downloaded: its directory is <tool>-<tag>.
DownloadTag(l) ==
    LET dir == DownloadDir(l.log) IN
    SubSeq(dir, Len(ToolOf(l.op)) + 2, Len(dir))

RECURSIVE LastBefore(_, _, _)
\* The index of the last occurrence of character ch in s at or before i, 0
\* when there is none.
LastBefore(s, ch, i) ==
    IF i < 1 THEN 0
    ELSE IF SubSeq(s, i, i) = ch THEN i
    ELSE LastBefore(s, ch, i - 1)

\* The substring from i to j, "" when it is empty.
Sub(s, i, j) == IF j < i THEN "" ELSE SubSeq(s, i, j)

\* The first version segment of a URL: the path segment after the tool's.
UrlVersion(url) ==
    LET a == SlashFrom(url, 9)
        b == SlashFrom(url, a + 1)
        c == SlashFrom(url, b + 1)
    IN  Sub(url, b + 1, c - 1)

\* The second version segment of a URL: in the file name, between "<tool>_"
\* and "_<os>_<arch>.zip".
UrlFileVersion(url, tool) ==
    LET a == SlashFrom(url, 9)
        b == SlashFrom(url, a + 1)
        c == SlashFrom(url, b + 1)
        name == Sub(url, c + 1, Len(url))
        u_arch == LastBefore(name, "_", Len(name))
        u_os == LastBefore(name, "_", u_arch - 1)
    IN  Sub(name, Len(tool) + 2, u_os - 1)

ExpectedOs == [Mac |-> "darwin", Linux |-> "linux", Windows |-> "windows"]

ExpectedArch == [Aarch64 |-> "arm64", X86 |-> "386", X8664 |-> "amd64"]

Downloaded(l) == l.op \in CommandOps /\ HasOp(l.log, "download_file")

\* C7: on every platform and for both tools, the URL of a download is
\* https://releases.hashicorp.com/<tool>/<version>/<tool>_<version>_<os>_<arch>.zip
\* with the same <version> in both places, <os> darwin, linux or windows for
\* Mac, Linux, Windows and <arch> arm64, 386 or amd64 for Aarch64, X86, X8664.
C7_PlatformMapping ==
    Downloaded(last) =>
        LET url == DownloadUrl(last.log)
            tool == ToolOf(last.op)
            version == UrlVersion(url)
        IN  url = "https://releases.hashicorp.com/" \o tool \o "/" \o version
                  \o "/" \o tool \o "_" \o version
                  \o "_" \o ExpectedOs[host.platform[1]]
                  \o "_" \o ExpectedArch[host.platform[2]] \o ".zip"

\* The spec's example: a download on macOS/ARM64 from ..._darwin_arm64.zip.
C7_Witness ==
    /\ Downloaded(last)
    /\ host.platform = <<"Mac", "Aarch64">>
    /\ DownloadUrl(last.log) =
         "https://releases.hashicorp.com/terraform-ls/1.2.3/terraform-ls_1.2.3_darwin_arm64.zip"

\* C8: both version segments of the URL of a download are the release tag
\* without one leading "v" when the tag starts with "v", and the tag itself
\* otherwise.
C8_VersionPrefixStripped ==
    Downloaded(last) =>
        LET url == DownloadUrl(last.log)
            tag == DownloadTag(last)
            version == UrlVersion(url)
        IN  /\ UrlFileVersion(url, ToolOf(last.op)) = version
            /\ IF Len(tag) > 0 /\ Sub(tag, 1, 1) = "v"
               THEN "v" \o version = tag
               ELSE version = tag
            /\ tag \in {"v1.2.3", "1.2.3"} => version = "1.2.3"
            /\ tag = "vv1.2.3" => version = "v1.2.3"

\* A download for a tag with a doubled prefix, of which one "v" is left.
C8_Witness ==
    /\ Downloaded(last)
    /\ DownloadTag(last) = "vv1.2.3"
    /\ UrlVersion(DownloadUrl(last.log)) = "v1.2.3"

\* A download for tag v1.2.3, whose URL holds 1.2.3.
C8_WitnessPrefixed ==
    /\ Downloaded(last)
    /\ DownloadTag(last) = "v1.2.3"
    /\ UrlVersion(DownloadUrl(last.log)) = "1.2.3"

\* C9: a command succeeds exactly when its locator does; it then returns the
\* located path as command, with args ["stdio"] for the context server and
\* ["serve"] for the language server, and an empty env; otherwise it returns
\* the locator's error.
C9_LaunchContract ==
    last.op \in CommandOps =>
        /\ last.result.ok = last.located.ok
        /\ IF last.located.ok
           THEN /\ last.result.val.command = last.located.val
                /\ last.result.val.args =
                     (IF last.op = "context_server_command"
                      THEN <<"stdio">> ELSE <<"serve">>)
                /\ last.result.val.env = <<>>
                /\ DOMAIN last.result.val = {"command", "args", "env"}
           ELSE last.result.val = last.located.val

\* The context server command has succeeded after an install.
C9_Witness ==
    /\ last.op = "context_server_command"
    /\ last.result.ok
    /\ last.result.val.args = <<"stdio">>
    /\ HasOp(last.log, "download_file")

\* The language server command has succeeded.
C9_WitnessServe ==
    /\ last.op = "language_server_command"
    /\ last.result.ok
    /\ last.result.val.args = <<"serve">>

\* A command has failed with its locator's error.
C9_WitnessError ==
    /\ last.op \in CommandOps
    /\ ~last.result.ok
    /\ last.result.val = HostError

\* C10: context_server_configuration leaves both cache fields and the working
\* directory as they are, makes no host call, and returns the same
\* descriptor every time.
C10_ConfigurationIsPure ==
    [][last'.op = "context_server_configuration"
        => /\ cached_mcp_binary_path' = cached_mcp_binary_path
           /\ cached_ls_binary_path' = cached_ls_binary_path
           /\ workdir' = workdir
           /\ host' = host
           /\ last'.log = <<>>
           /\ last'.result.ok
           /\ last'.result.val =
                Some([installation_instructions |-> installation_instructions,
                      default_settings |-> default_settings,
                      settings_schema |-> settings_schema])]_vars

\* The configuration was queried with both cache fields set and a working
\* directory that is not empty.
C10_Witness ==
    /\ last.op = "context_server_configuration"
    /\ cached_mcp_binary_path # None
    /\ cached_ls_binary_path # None
    /\ DOMAIN workdir # {}

\* The cache field of a handler, after the step.
CacheAfter(op) ==
    IF op = "context_server_command" THEN cached_mcp_binary_path'
    ELSE cached_ls_binary_path'

\* C11: a call whose cache field names a regular file (and, for the language
\* server, whose PATH lookup found nothing) returns the cached path; its only
\* host calls are the cache check and, before it and for the language server
\* alone, the PATH lookup: no release lookup, no download, no directory
\* listing; the working directory and both cache fields are left as they are.
C11_CacheHitShortCircuits ==
    [][\A op \in CommandOps :
        LET cache == CacheOf(op) IN
        (/\ last'.op = op /\ last'.which = None
         /\ cache # None /\ is_file(workdir, cache[1]))
        => /\ last'.located = Ok(cache[1])
           /\ last'.log =
                (IF op = "context_server_command"
                 THEN <<<<"metadata", cache[1]>>>>
                 ELSE <<<<"which", "terraform-ls">>, <<"metadata", cache[1]>>>>)
           /\ last'.sweep = "none"
           /\ workdir' = workdir
           /\ cached_mcp_binary_path' = cached_mcp_binary_path
           /\ cached_ls_binary_path' = cached_ls_binary_path]_vars

\* The context server command has returned its cached path after the cache
\* check alone, with another entry in the working directory left in place.
C11_Witness ==
    /\ last.op = "context_server_command"
    /\ cached_mcp_binary_path # None
    /\ last.log = <<<<"metadata", cached_mcp_binary_path[1]>>>>
    /\ last.located = Ok(cached_mcp_binary_path[1])
    /\ Cardinality(DOMAIN workdir) >= 2

\* The language server command has returned its cached path after a PATH
\* lookup that found nothing.
C11_WitnessLs ==
    /\ last.op = "language_server_command"
    /\ last.which = None
    /\ cached_ls_binary_path # None
    /\ last.log = <<<<"which", "terraform-ls">>,
                    <<"metadata", cached_ls_binary_path[1]>>>>
    /\ last.located = Ok(cached_ls_binary_path[1])

\* C12: a sweep in which removals fail still goes through every listed entry
\* and the call returns Ok with its cache field set to the returned path:
\* read_dir listed the working directory as the download left it, and every
\* listed entry other than version_dir is either removed or one whose removal
\* failed. A failure to list the working directory or to load an entry makes
\* the call return that error and leaves both cache fields as they were; a
\* failed listing removes nothing. A call that fails after read_dir fails
\* with one of these two errors, never with that of a removal.
C12_CleanupErrors ==
    [][\A op \in CommandOps :
        (last'.op = op /\ HasOp(last'.log, "read_dir")) =>
        LET version_dir == DownloadDir(last'.log)
            listed == DOMAIN workdir \cup {version_dir}
        IN
        /\ last'.sweep \in {"list_err", "entry_err", "done"}
        /\ last'.sweep = "done" =>
             /\ last'.result.ok
             /\ CacheAfter(op) = Some(last'.located.val)
             /\ last'.listed = listed
             /\ last'.kept \subseteq listed \ {version_dir}
             /\ DOMAIN workdir' = {version_dir} \cup last'.kept
        /\ last'.sweep = "list_err" =>
             /\ last'.result =
                  Err("failed to list working directory " \o HostError)
             /\ DOMAIN workdir' = listed
        /\ last'.sweep = "entry_err" =>
             /\ last'.result =
                  Err("failed to load directory entry " \o HostError)
             /\ last'.listed = listed
             /\ version_dir \in DOMAIN workdir'
             /\ DOMAIN workdir' \subseteq listed
        /\ last'.sweep # "done" =>
             /\ ~last'.result.ok
             /\ cached_mcp_binary_path' = cached_mcp_binary_path
             /\ cached_ls_binary_path' = cached_ls_binary_path]_vars

\* A call has returned Ok from a sweep in which one removal failed and
\* another succeeded, with its cache field set by it.
C12_Witness ==
    /\ last.op \in CommandOps
    /\ last.sweep = "done"
    /\ last.result.ok
    /\ last.kept # {}
    /\ last.listed \ (DOMAIN workdir) # {}
    /\ CacheOf(last.op) = Some(last.located.val)

\* A call has failed in loading a directory entry after the sweep had removed
\* an entry, with its cache field unset.
C12_WitnessEntry ==
    /\ last.op \in CommandOps
    /\ last.sweep = "entry_err"
    /\ last.listed \ (DOMAIN workdir) # {}
    /\ CacheOf(last.op) = None

\* A call has failed in listing the working directory, with its cache field
\* unset and the downloaded binary in place.
C12_WitnessList ==
    /\ last.op \in CommandOps
    /\ last.sweep = "list_err"
    /\ CacheOf(last.op) = None
    /\ Cardinality(DOMAIN workdir) >= 2

\* The path a call looked for after resolving the release: the metadata call
\* that follows current_platform in its log.
BinaryChecked(log) ==
    LET i == CHOOSE j \in 1..Len(log) : log[j][1] = "current_platform"
    IN  log[i + 1][2]

\* C13: a call that resolves a release and finds a regular file at
\* "<tool>-<version>/<tool>" returns that path without a download, a
\* make-executable step or a directory listing: the working directory is the
\* same after the call as before it, the handler's cache field holds the path
\* and the other cache field is left as it was.
C13_AlreadyInstalledIsNoOp ==
    [][\A op \in CommandOps :
        (/\ last'.op = op
         /\ HasOp(last'.log, "current_platform")
         /\ is_file(workdir, BinaryChecked(last'.log)))
        => LET binary_path == BinaryChecked(last'.log)
               log == last'.log
           IN
           /\ \E tag \in host.tags :
                 binary_path = ToolOf(op) \o "-" \o tag \o "/" \o ToolOf(op)
           /\ log[Len(log)] = <<"metadata", binary_path>>
           /\ ~HasOp(log, "download_file")
           /\ ~HasOp(log, "make_file_executable")
           /\ ~HasOp(log, "read_dir")
           /\ last'.sweep = "none"
           /\ last'.located = Ok(binary_path)
           /\ workdir' = workdir
           /\ CacheAfter(op) = Some(binary_path)
           /\ op = "context_server_command"
                => cached_ls_binary_path' = cached_ls_binary_path
           /\ op = "language_server_command"
                => cached_mcp_binary_path' = cached_mcp_binary_path]_vars

\* A call whose cache field was unset or stale has found the resolved
\* version's binary in place and returned it, with another entry of the
\* working directory left where it was.
C13_Witness ==
    /\ last.op \in CommandOps
    /\ last.result.ok
    /\ HasOp(last.log, "current_platform")
    /\ ~HasOp(last.log, "download_file")
    /\ CacheOf(last.op) = Some(last.located.val)
    /\ Cardinality(DOMAIN workdir) >= 2

\* The cache field of the other handler, in the current state: the path most
\* recently returned to the other tool by the cache or install logic of this
\* extension instance.
OtherCacheOf(op) ==
    IF op = "context_server_command" THEN cached_ls_binary_path
    ELSE cached_mcp_binary_path

\* C14 as claimed: a successful command of one tool (no PATH hit) leaves the
\* binary most recently returned for the other tool in place: when the other
\* tool's path names a regular file before the call, it names one after it.
C14_ToolsDoNotDisturb ==
    [][\A op \in CommandOps :
        LET other == OtherCacheOf(op) IN
        (/\ last'.op = op /\ last'.which = None /\ last'.result.ok
         /\ other # None /\ is_file(workdir, other[1]))
        => is_file(workdir', other[1])]_vars

(***************************************************************************)
(* The installation statuses, read back from a call's log.                 *)
(***************************************************************************)

CheckingForUpdate ==
    <<"set_language_server_installation_status", "CheckingForUpdate">>

Downloading == <<"set_language_server_installation_status", "Downloading">>

\* The positions of an event in a log.
PositionsOf(log, ev) == {i \in 1..Len(log) : log[i] = ev}

\* C15: a language_server_command reports no status on a PATH hit or when its
\* cache field names a regular file; otherwise it reports CheckingForUpdate
\* once, directly before its one release lookup. It reports Downloading
\* exactly when it downloads: once, directly before download_file, after a
\* release lookup that succeeded, and only when no regular file was at the
\* version path before the call. No other status is reported, and a
\* context_server_command reports none.
C15_StatusOrdering ==
    [][/\ last'.op = "context_server_command" =>
            ~HasOp(last'.log, "set_language_server_installation_status")
       /\ last'.op = "language_server_command" =>
            LET log == last'.log
                n == Len(log)
                cache == cached_ls_binary_path
                \* where CheckingForUpdate comes: after the PATH lookup and
                \* the cache check, if there was one
                k == IF cache = None THEN 2 ELSE 3
            IN
            IF last'.which # None \/ (cache # None /\ is_file(workdir, cache[1]))
            THEN \A i \in 1..n :
                    log[i][1] \notin {"set_language_server_installation_status",
                                      "latest_github_release", "download_file"}
            ELSE
              /\ n >= k + 1
              /\ log[k] = CheckingForUpdate
              /\ log[k + 1][1] = "latest_github_release"
              /\ \A i \in 1..n :
                    /\ log[i][1] = "set_language_server_installation_status"
                         => i \in {k, k + 4}
                    /\ log[i][1] = "latest_github_release" => i = k + 1
                    /\ log[i][1] = "download_file" => i = k + 5
              /\ n = k + 1 => ~last'.result.ok
              /\ n > k + 1 =>
                   /\ n >= k + 3
                   /\ log[k + 2] = <<"current_platform">>
                   /\ log[k + 3][1] = "metadata"
                   /\ IF is_file(workdir, log[k + 3][2])
                      THEN n = k + 3
                      ELSE /\ n >= k + 5
                           /\ log[k + 4] = Downloading
                           /\ log[k + 5][1] = "download_file"]_vars

\* A language_server_command has reported both statuses and installed.
C15_Witness ==
    /\ last.op = "language_server_command"
    /\ last.result.ok
    /\ PositionsOf(last.log, CheckingForUpdate) # {}
    /\ PositionsOf(last.log, Downloading) # {}
    /\ HasOp(last.log, "download_file")

\* A language_server_command has reported CheckingForUpdate alone: the
\* resolved version's binary was in place.
C15_WitnessNoDownload ==
    /\ last.op = "language_server_command"
    /\ last.result.ok
    /\ PositionsOf(last.log, CheckingForUpdate) # {}
    /\ PositionsOf(last.log, Downloading) = {}

\* A language_server_command whose release lookup failed has reported
\* CheckingForUpdate alone.
C15_WitnessLookupFailed ==
    /\ last.op = "language_server_command"
    /\ ~last.result.ok
    /\ PositionsOf(last.log, CheckingForUpdate) # {}
    /\ ~HasOp(last.log, "current_platform")

====
